---- MODULE Spec2Model ----
(***************************************************************************)
(* Model of Db/dblock.c (wgandalf / whitedb): the database level           *)
(* shared/exclusive lock.                                                  *)
(*                                                                         *)
(* The file holds two algorithms, chosen at build time:                    *)
(*   - without QUEUED_LOCKS: the simple reader-preference lock on one     *)
(*     sync word (specification SpecS);                                    *)
(*   - with QUEUED_LOCKS: the locally spinning queued lock with its        *)
(*     lock-free cell pool (specification SpecQ, every step interleaved;   *)
(*     SpecQU and SpecQP are the schedulings of it that are explored:      *)
(*     SpecQU runs alloc_lock and free_lock without interruption, SpecQP   *)
(*     runs the queue protocol without interruption between its waits;     *)
(*     SpecQB is the workload of one writer and a batch of readers).       *)
(*   SpecSF is SpecS with callers that go on calling and a fair scheduler. *)
(*   SpecI runs init_lock_queue alone, statement by statement, on fresh    *)
(*   and on used segments.                                                 *)
(*                                                                         *)
(* Every atomic primitive and every plain access of shared memory is one   *)
(* step of the calling thread.  A spin loop is a step that is enabled      *)
(* only once the awaited value is observed (the sleeps between spin        *)
(* passes change no state).  Offsets are kept as the code keeps them:      *)
(* cell i lives at offset Storage + i * SYN_VAR_PADDING, 0 is "none".      *)
(***************************************************************************)
EXTENDS Integers, FiniteSets, Sequences, TLC

\* ------------------------------------------------------------------ bounds
NThreads == 3
\* cells in the lock arena (locks.max_nodes), and the smaller arena used
\* where every step of the pool is interleaved
MaxNodes == 3
MaxNodesP == 2
\* cells in the arena of the reader-batching scenario, which has one
\* thread more than the others
MaxNodesB == 4
\* calls a thread may make that take a cell or are refused: the first
\* thread MaxCalls, every other thread MaxCallsOther
MaxCalls == 2
MaxCallsOther == 1

\* --------------------------------------------------------------- constants
WAFLAG == 1
RC_INCR == 2
LOCKQ_READ == 2
LOCKQ_WRITE == 4
SYN_VAR_PADDING == 128
Storage == 128

Threads == 1..NThreads
ThreadsB == 1..(NThreads + 1)
Budget(t) == IF t = 1 THEN MaxCalls ELSE MaxCallsOther

\* dbcheck(db): the handle either passes the predicate or it does not
Handles == {"valid", "invalid"}
dbcheck(h) == h = "valid"

\* chunk_wall for an arena of n cells, and the offsets of the cells
chunk_wall(n) == Storage + n * SYN_VAR_PADDING
Cells == {Storage + i * SYN_VAR_PADDING : i \in 0..(MaxNodesB - 1)}

\* ------------------------------------------------------- bit operations
\* x & m # 0, for a one-bit mask m and x >= 0
TestMask(x, m) == (x \div m) % 2 = 1
\* x & ~m
AndNot(x, m) == IF TestMask(x, m) THEN x - m ELSE x
\* x | m
OrMask(x, m) == IF TestMask(x, m) THEN x ELSE x + m

VARIABLES
  gl,            \* the sync word locks.global_lock (simple lock)
  tail,          \* locks.tail
  next_writer,   \* locks.next_writer
  reader_count,  \* locks.reader_count
  freelist,      \* locks.freelist
  class,         \* lock_queue_node.class, per cell
  state,         \* lock_queue_node.state, per cell
  next,          \* lock_queue_node.next, per cell
  next_cell,     \* lock_queue_node.next_cell, per cell
  refcount,      \* lock_queue_node.refcount, per cell
  pc,            \* per thread: position in the code
  op,            \* per thread: the public operation in progress, or none
  hdl,           \* per thread: the handle passed to the latest call
  ret,           \* per thread: the value the latest call returned
  lock,          \* per thread: local lock (the cell / token)
  prev,          \* per thread: local prev of wg_start_*
  nx,            \* per thread: local nextp / w of wg_end_*, wg_start_read
  tl,            \* per thread: local t of alloc_lock / free_lock
  nc,            \* per thread: tmp->next_cell as read by alloc_lock
  fnode,         \* per thread: argument node of free_lock
  ncalls,        \* per thread: wg_start_* calls and refused calls so far
  inited,        \* init_lock_queue has linked the cells
  initret,       \* the value init_lock_queue returned
  arr            \* threads past their fetch_and_store on tail that have
                 \* not returned from wg_start_* yet, in the order of it

shared == <<gl, tail, next_writer, reader_count, freelist,
            class, state, next, next_cell, refcount>>
qshared == <<tail, next_writer, reader_count, freelist,
             class, state, next, next_cell, refcount>>
qhead == <<tail, next_writer, reader_count, freelist>>
qnodes == <<class, state, next, next_cell, refcount>>
locals == <<lock, prev, nx, tl, nc, fnode>>
vars == <<gl, tail, next_writer, reader_count, freelist,
          class, state, next, next_cell, refcount,
          pc, op, hdl, ret, lock, prev, nx, tl, nc, fnode, ncalls,
          inited, initret, arr>>

\* ret holds <<v>> once a call has returned v, and <<>> before that
NoRet == <<>>

\* The segment as created, before init_lock_queue has run: zero filled.
Init ==
  /\ gl = 0
  /\ tail = 0 /\ next_writer = 0 /\ reader_count = 0 /\ freelist = 0
  /\ class = [c \in Cells |-> 0]
  /\ state = [c \in Cells |-> 0]
  /\ next = [c \in Cells |-> 0]
  /\ next_cell = [c \in Cells |-> 0]
  /\ refcount = [c \in Cells |-> 0]
  /\ pc = [t \in Threads |-> "idle"]
  /\ op = [t \in Threads |-> "none"]
  /\ hdl = [t \in Threads |-> "valid"]
  /\ ret = [t \in Threads |-> NoRet]
  /\ lock = [t \in Threads |-> 0]
  /\ prev = [t \in Threads |-> 0]
  /\ nx = [t \in Threads |-> 0]
  /\ tl = [t \in Threads |-> 0]
  /\ nc = [t \in Threads |-> 0]
  /\ fnode = [t \in Threads |-> 0]
  /\ ncalls = [t \in Threads |-> 0]
  /\ inited = FALSE
  /\ initret = NoRet
  /\ arr = <<>>

\* the waiting order with thread t taken out of it / put at its end
Leave(t) == SelectSeq(arr, LAMBDA u : u # t)
Arrive(t) == Append(Leave(t), t)

\* Return from a public operation with value v, the thread going to `to'.
Return(t, v, to) ==
  /\ pc' = [pc EXCEPT ![t] = to]
  /\ op' = [op EXCEPT ![t] = "none"]
  /\ ret' = [ret EXCEPT ![t] = <<v>>]

\* InvalidCall without the #ifdef CHECK block: the call goes on into the
\* lock code and counts itself into reader_count
InvalidCall_Unchecked(t, at, failure) ==
  /\ pc[t] = at /\ ncalls[t] < Budget(t)
  /\ ~dbcheck("invalid")
  /\ ncalls' = [ncalls EXCEPT ![t] = @ + 1]
  /\ hdl' = [hdl EXCEPT ![t] = "invalid"]
  /\ ret' = [ret EXCEPT ![t] = <<failure>>]
  /\ reader_count' = reader_count + 1
  /\ UNCHANGED <<gl, tail, next_writer, freelist, qnodes,
                 pc, op, locals, inited, initret, arr>>

\* A call whose handle fails dbcheck: the #ifdef CHECK block returns the
\* failure value at once.  The thread stays where it was (idle, or holding
\* the lock it still has to release).
InvalidCall(t, at, failure) ==
  /\ pc[t] = at /\ ncalls[t] < Budget(t)
  /\ ~dbcheck("invalid")
  /\ ncalls' = [ncalls EXCEPT ![t] = @ + 1]
  /\ hdl' = [hdl EXCEPT ![t] = "invalid"]
  /\ ret' = [ret EXCEPT ![t] = <<failure>>]
  /\ UNCHANGED <<shared, pc, op, locals, inited, initret, arr>>

\* ====================================================================
\* Simple lock (QUEUED_LOCKS not defined)
\* ====================================================================

\* Variant of S_StartWrite whose compare-and-swap looks at the WAFLAG bit
\* only (readers are not seen).
S_StartWrite_FlagOnly(t) ==
  /\ pc[t] = "idle" /\ ncalls[t] < Budget(t)
  /\ dbcheck("valid")
  /\ ncalls' = [ncalls EXCEPT ![t] = @ + 1]
  /\ hdl' = [hdl EXCEPT ![t] = "valid"]
  /\ IF ~TestMask(gl, WAFLAG)
       THEN /\ gl' = OrMask(gl, WAFLAG)
            /\ Return(t, 1, "s_writing")
       ELSE /\ gl' = gl
            /\ pc' = [pc EXCEPT ![t] = "s_wspin"]
            /\ op' = [op EXCEPT ![t] = "start_write"]
            /\ ret' = [ret EXCEPT ![t] = NoRet]
  /\ UNCHANGED <<qshared, locals, inited, initret, arr>>

\* wg_start_write: "First attempt at getting the lock without spinning":
\* lock cmpxchg of the sync word from 0 to WAFLAG.
S_StartWrite(t) ==
  /\ pc[t] = "idle" /\ ncalls[t] < Budget(t)
  /\ dbcheck("valid")
  /\ ncalls' = [ncalls EXCEPT ![t] = @ + 1]
  /\ hdl' = [hdl EXCEPT ![t] = "valid"]
  /\ IF gl = 0
       THEN /\ gl' = WAFLAG
            /\ Return(t, 1, "s_writing")
       ELSE /\ gl' = gl
            /\ pc' = [pc EXCEPT ![t] = "s_wspin"]
            /\ op' = [op EXCEPT ![t] = "start_write"]
            /\ ret' = [ret EXCEPT ![t] = NoRet]
  /\ UNCHANGED <<qshared, locals, inited, initret, arr>>

\* Spin loop of wg_start_write: "cmpl $0, gl; jne l1": the word is read
\* first, and the compare-and-swap is tried only when it was seen as 0.
S_WriteSpinRead(t) ==
  /\ pc[t] = "s_wspin"
  /\ gl = 0
  /\ pc' = [pc EXCEPT ![t] = "s_wcas"]
  /\ UNCHANGED <<shared, op, hdl, ret, locals, ncalls, inited, initret, arr>>

\* Variant of S_WriteSpinCas that stores WAFLAG without comparing.
S_WriteSpinCas_Store(t) ==
  /\ pc[t] = "s_wcas"
  /\ gl' = OrMask(gl, WAFLAG)
  /\ Return(t, 1, "s_writing")
  /\ UNCHANGED <<qshared, hdl, locals, ncalls, inited, initret, arr>>

S_WriteSpinCas(t) ==
  /\ pc[t] = "s_wcas"
  /\ IF gl = 0
       THEN /\ gl' = WAFLAG
            /\ Return(t, 1, "s_writing")
       ELSE /\ gl' = gl
            /\ pc' = [pc EXCEPT ![t] = "s_wspin"]
            /\ UNCHANGED <<op, ret>>
  /\ UNCHANGED <<qshared, hdl, locals, ncalls, inited, initret, arr>>

\* Variant of S_EndWrite that stores 0 in the sync word.
S_EndWrite_ClearAll(t) ==
  /\ pc[t] = "s_writing"
  /\ dbcheck("valid")
  /\ gl' = 0
  /\ hdl' = [hdl EXCEPT ![t] = "valid"]
  /\ Return(t, 1, "idle")
  /\ UNCHANGED <<qshared, locals, ncalls, inited, initret, arr>>

\* wg_end_write: __sync_fetch_and_and(gl, ~WAFLAG); return 1
S_EndWrite(t) ==
  /\ pc[t] = "s_writing"
  /\ dbcheck("valid")
  /\ gl' = AndNot(gl, WAFLAG)
  /\ hdl' = [hdl EXCEPT ![t] = "valid"]
  /\ Return(t, 1, "idle")
  /\ UNCHANGED <<qshared, locals, ncalls, inited, initret, arr>>

\* Variant of S_StartRead that leaves the reader count alone while a writer
\* is active (the reader registers nothing during its wait).
S_StartRead_NoCount(t) ==
  /\ pc[t] = "idle" /\ ncalls[t] < Budget(t)
  /\ dbcheck("valid")
  /\ ncalls' = [ncalls EXCEPT ![t] = @ + 1]
  /\ gl' = IF TestMask(gl, WAFLAG) THEN gl ELSE gl + RC_INCR
  /\ pc' = [pc EXCEPT ![t] = "s_rspin"]
  /\ op' = [op EXCEPT ![t] = "start_read"]
  /\ hdl' = [hdl EXCEPT ![t] = "valid"]
  /\ ret' = [ret EXCEPT ![t] = NoRet]
  /\ UNCHANGED <<qshared, locals, inited, initret, arr>>

\* wg_start_read: __sync_fetch_and_add(gl, RC_INCR)
S_StartRead(t) ==
  /\ pc[t] = "idle" /\ ncalls[t] < Budget(t)
  /\ dbcheck("valid")
  /\ ncalls' = [ncalls EXCEPT ![t] = @ + 1]
  /\ gl' = gl + RC_INCR
  /\ pc' = [pc EXCEPT ![t] = "s_rspin"]
  /\ op' = [op EXCEPT ![t] = "start_read"]
  /\ hdl' = [hdl EXCEPT ![t] = "valid"]
  /\ ret' = [ret EXCEPT ![t] = NoRet]
  /\ UNCHANGED <<qshared, locals, inited, initret, arr>>

\* Variant of S_ReadSpin that lets a spinning writer go first.
S_ReadSpin_WriterFirst(t) ==
  /\ pc[t] = "s_rspin"
  /\ ~TestMask(gl, WAFLAG)
  /\ \A w \in Threads : pc[w] \notin {"s_wspin", "s_wcas"}
  /\ Return(t, 1, "s_reading")
  /\ UNCHANGED <<shared, hdl, locals, ncalls, inited, initret, arr>>

\* "Try getting the lock without pause" and the spin loop after it: both
\* read the word and return 1 once WAFLAG is seen clear.
S_ReadSpin(t) ==
  /\ pc[t] = "s_rspin"
  /\ ~TestMask(gl, WAFLAG)
  /\ Return(t, 1, "s_reading")
  /\ UNCHANGED <<shared, hdl, locals, ncalls, inited, initret, arr>>

\* wg_end_read: __sync_fetch_and_add(gl, -RC_INCR); return 1
S_EndRead(t) ==
  /\ pc[t] = "s_reading"
  /\ dbcheck("valid")
  /\ gl' = gl - RC_INCR
  /\ hdl' = [hdl EXCEPT ![t] = "valid"]
  /\ Return(t, 1, "idle")
  /\ UNCHANGED <<qshared, locals, ncalls, inited, initret, arr>>

S_InvalidStartWrite(t) == InvalidCall(t, "idle", 0)
S_InvalidStartRead(t) == InvalidCall(t, "idle", 0)
S_InvalidEndWrite(t) == InvalidCall(t, "s_writing", 0)
S_InvalidEndRead(t) == InvalidCall(t, "s_reading", 0)

NextS ==
  \E t \in Threads :
    \/ S_StartWrite(t)
    \/ S_WriteSpinRead(t)
    \/ S_WriteSpinCas(t)
    \/ S_EndWrite(t)
    \/ S_StartRead(t)
    \/ S_ReadSpin(t)
    \/ S_EndRead(t)
    \/ S_InvalidStartWrite(t)
    \/ S_InvalidStartRead(t)
    \/ S_InvalidEndWrite(t)
    \/ S_InvalidEndRead(t)

SpecS == Init /\ [][NextS]_vars

\* --------------------------------------------------------------------
\* Properties of the simple lock
\* --------------------------------------------------------------------

\* C3: simple lock, reader/writer exclusion: no thread is between the
\* return of wg_start_write and its wg_end_write while any thread is between
\* the return of wg_start_read and its wg_end_read; a wg_start_write issued
\* while readers hold the lock has not returned as long as one of them
\* still holds it.
C3_S_ReadWriteExclusion ==
  \A w, r \in Threads : pc[w] = "s_writing" => pc[r] # "s_reading"

\* a writer is inside wg_start_write, spinning, while readers hold the lock
C3_Witness ==
  \E w, r1, r2 \in Threads :
    /\ r1 # r2
    /\ pc[w] = "s_wspin"
    /\ pc[r1] = "s_reading" /\ pc[r2] = "s_reading"
    /\ gl = 2 * RC_INCR

\* C4: simple lock, writer exclusivity: at most one thread at a time is
\* between the return of wg_start_write and its call of wg_end_write.
C4_S_WriterExclusivity ==
  Cardinality({t \in Threads : pc[t] = "s_writing"}) <= 1

\* one writer holds the lock while another, which had seen the word as 0,
\* is about to try its compare-and-swap
C4_Witness ==
  \E a, b \in Threads :
    a # b /\ pc[a] = "s_writing" /\ pc[b] = "s_wcas" /\ gl = WAFLAG

\* C10: simple lock, reader preference: from a reader's fetch-and-add until
\* its wg_end_read its RC_INCR stays in the sync word and no wg_start_write
\* acquires the lock; so no writer acquires while a reader is waiting, and
\* the readers waiting at wg_end_write enter before any writer does.
C10_S_ReaderPreference ==
  [][ /\ \A r \in Threads :
           pc[r] \in {"s_rspin", "s_reading"} =>
             gl >= RC_INCR * Cardinality({x \in Threads :
                                 pc[x] \in {"s_rspin", "s_reading"}})
      /\ \A w \in Threads :
           (pc[w] # "s_writing" /\ pc'[w] = "s_writing") =>
             \A r \in Threads : pc[r] \notin {"s_rspin", "s_reading"}
    ]_vars

\* a reader waits for the active writer with its RC_INCR in the sync word,
\* and a second writer is waiting too
C10_Witness ==
  \E r, w, x \in Threads :
    /\ pc[x] = "s_writing" /\ pc[r] = "s_rspin" /\ pc[w] = "s_wspin"
    /\ gl = WAFLAG + RC_INCR

\* --------------------------------------------------------------------
\* The simple lock under sustained traffic: the callers go on calling and
\* the scheduler is fair to every spinning thread and to every holder.
\* --------------------------------------------------------------------

\* the caller of thread t goes on calling the lock functions: its count of
\* calls starts again
S_MoreCalls(t) ==
  /\ pc[t] = "idle"
  /\ ncalls[t] >= Budget(t)
  /\ ncalls' = [ncalls EXCEPT ![t] = 0]
  /\ UNCHANGED <<shared, pc, op, hdl, ret, locals, inited, initret, arr>>

NextSF ==
  \/ NextS
  \/ \E t \in Threads : S_MoreCalls(t)

\* a spinning thread goes round its loop again, a holder calls its end
\* function; nobody is obliged to start a new call
FairS ==
  \A t \in Threads :
    /\ WF_vars(S_WriteSpinRead(t))
    /\ WF_vars(S_WriteSpinCas(t))
    /\ WF_vars(S_ReadSpin(t))
    /\ WF_vars(S_EndWrite(t))
    /\ WF_vars(S_EndRead(t))

SpecSF == Init /\ [][NextSF]_vars /\ FairS

\* writer w spins in wg_start_write and no writer holds the lock, while
\* a holds a read lock and b is ...
\*   RelayIdle: outside the lock,
\*   RelaySpin: past its fetch-and-add, in the loop of wg_start_read,
\*   RelayBoth: holding a read lock as well
RelayBase(w, a) ==
  pc[w] = "s_wspin" /\ ~TestMask(gl, WAFLAG) /\ pc[a] = "s_reading"

RelayIdle(w, a, b) == RelayBase(w, a) /\ pc[b] = "idle"

RelaySpin(w, a, b) == RelayBase(w, a) /\ pc[b] = "s_rspin"

RelayBoth(w, a, b) == RelayBase(w, a) /\ pc[b] = "s_reading"

\* "whenever a writer spins in wg_start_write, some writer gets the lock":
\* not a property of SpecSF (the fair behaviour TLC finds against it is
\* the starving execution of C11)
S_WriterEventuallyEnters ==
  (\E w \in Threads : pc[w] = "s_wspin")
    ~> (\E w \in Threads : pc[w] = "s_writing")

\* C11: simple lock, writer starvation is possible: there is a fair
\* execution in which the critical sections of the readers overlap, every
\* reader calls wg_end_read again and again, the sync word is never 0 when
\* the writer looks at it, and the writer never returns from
\* wg_start_write.  The execution is the relay
\*   RelayIdle(w,a,b) -> RelaySpin(w,a,b) -> RelayBoth(w,a,b)
\*     -> RelayIdle(w,b,a) -> ...
\* of two readers a and b: in each of its states the sync word holds a
\* reader's RC_INCR, the writer's loop cannot leave, and the next step of
\* the relay is enabled and leads to the next state of the relay.
C11_S_WriterStarvation ==
  \A w, a, b \in Threads :
    (w # a /\ w # b /\ a # b) =>
      /\ RelayBase(w, a) =>
           gl >= RC_INCR /\ ~ENABLED S_WriteSpinRead(w)
      /\ (RelayIdle(w, a, b) /\ ncalls[b] >= Budget(b)) =>
           ENABLED (S_MoreCalls(b) /\
                    (RelayIdle(w, a, b) /\ ncalls[b] < Budget(b))')
      /\ (RelayIdle(w, a, b) /\ ncalls[b] < Budget(b)) =>
           ENABLED (S_StartRead(b) /\ RelaySpin(w, a, b)')
      /\ RelaySpin(w, a, b) =>
           ENABLED (S_ReadSpin(b) /\ RelayBoth(w, a, b)')
      /\ RelayBoth(w, a, b) =>
           ENABLED (S_EndRead(a) /\ RelayIdle(w, b, a)')

\* the relay has gone round: the writer spins, a holds a read lock, and b
\* has returned from wg_end_read and is about to call wg_start_read anew
C11_Witness ==
  \E w, a, b \in Threads :
    /\ w # a /\ w # b /\ a # b
    /\ RelayIdle(w, a, b)
    /\ gl = RC_INCR
    /\ ret[b] = <<1>> /\ ncalls[b] = 0

\* thread w makes an attempt to take the write lock in this step: the
\* compare-and-swap of wg_start_write's first try or of its spin loop
WriteAttempt(w) ==
  \/ pc[w] = "idle" /\ pc'[w] \in {"s_wspin", "s_writing"}
  \/ pc[w] = "s_wcas" /\ pc'[w] \in {"s_wspin", "s_writing"}

\* C12 as stated: simple lock, only the WAFLAG bit gates writers: an
\* attempt of wg_start_write made while WAFLAG is clear acquires the lock
\* whatever the reader-count bits of the sync word are.
C12_S_OnlyWaflagGates ==
  [][ \A w \in Threads :
        (WriteAttempt(w) /\ ~TestMask(gl, WAFLAG)) => pc'[w] = "s_writing"
    ]_vars

\* C12, amended: simple lock, an attempt of wg_start_write acquires the
\* lock exactly when the whole sync word is 0: the reader-count bits gate a
\* writer as the WAFLAG bit does, and an acquiring attempt leaves the word
\* at WAFLAG.
C12_S_WholeWordGates ==
  [][ \A w \in Threads :
        WriteAttempt(w) =>
          /\ pc'[w] = "s_writing" <=> gl = 0
          /\ gl' = IF gl = 0 THEN WAFLAG ELSE gl
    ]_vars

\* the first try of a writer has failed against a reader alone: WAFLAG is
\* clear, the reader count is not, and the writer spins
C12_Witness ==
  \E w, r \in Threads :
    /\ pc[w] = "s_wspin" /\ pc[r] = "s_reading"
    /\ gl = RC_INCR
    /\ ncalls[w] = 1 /\ \A x \in Threads \ {w, r} : ncalls[x] = 0

\* threads past the fetch-and-add of wg_start_read and not yet past the
\* decrement of wg_end_read: the waiting and the active readers
S_Readers == {t \in Threads : pc[t] \in {"s_rspin", "s_reading"}}

\* threads past a successful compare-and-swap of wg_start_write and not
\* yet past the atomic AND of wg_end_write
S_Writers == {t \in Threads : pc[t] = "s_writing"}

\* C15: simple lock, encoding of the sync word: in every reachable state
\* the word is RC_INCR times the number of waiting or active readers, plus
\* WAFLAG exactly when a writer holds the lock; so it is RC_INCR with one
\* reader alone, WAFLAG with one writer alone, and 0 when nobody holds the
\* lock or waits as a reader.
C15_S_SyncWordEncoding ==
  gl = RC_INCR * Cardinality(S_Readers)
         + (IF S_Writers # {} THEN WAFLAG ELSE 0)

\* a writer holds the lock and two readers wait for it: the word is
\* WAFLAG + 2 * RC_INCR
C15_Witness ==
  /\ Cardinality(S_Writers) = 1
  /\ Cardinality({t \in Threads : pc[t] = "s_rspin"}) = 2
  /\ gl = WAFLAG + RC_INCR + RC_INCR

\* C17: simple lock, readers cannot be starved: under weak fairness, with
\* every writer that holds the lock calling wg_end_write, every
\* wg_start_read returns; and while a reader is counted in the sync word
\* and WAFLAG is clear, no step sets WAFLAG: once the active writer has
\* cleared it, it stays clear until that reader has entered and left.
C17_S_ReaderNotStarved ==
  /\ \A r \in Threads : (pc[r] = "s_rspin") ~> (pc[r] = "s_reading")
  /\ [][ (S_Readers # {} /\ ~TestMask(gl, WAFLAG)) => ~TestMask(gl', WAFLAG)
       ]_vars

\* no writer is active, a reader is in wg_start_read with its RC_INCR in
\* the word, and a writer that had read the word as 0 before is about to
\* try its compare-and-swap
C17_Witness ==
  \E r, w \in Threads :
    /\ pc[r] = "s_rspin" /\ pc[w] = "s_wcas"
    /\ gl = RC_INCR

\* ====================================================================
\* Queued lock (QUEUED_LOCKS defined)
\* ====================================================================

\* init_lock_queue: the loop links cell i to cell i + SYN_VAR_PADDING and
\* sets every refcount to 1; the last cell's next_cell is then set to 0.
\* n is locks.max_nodes; cells of the arena past chunk_wall stay as they are.
LinkedNextCell(c, n) ==
  IF c + SYN_VAR_PADDING < chunk_wall(n) THEN c + SYN_VAR_PADDING ELSE 0

init_lock_queue(n) ==
  /\ ~inited
  /\ dbcheck("valid")
  /\ refcount' = [c \in Cells |-> IF c < chunk_wall(n) THEN 1
                                                       ELSE refcount[c]]
  /\ next_cell' = [c \in Cells |-> IF c < chunk_wall(n)
                                     THEN LinkedNextCell(c, n)
                                     ELSE next_cell[c]]
  /\ freelist' = Storage
  /\ inited' = TRUE
  /\ initret' = <<0>>
  /\ UNCHANGED <<gl, tail, next_writer, reader_count, class, state, next,
                 pc, op, hdl, ret, locals, ncalls, arr>>

\* init_lock_queue with a handle that fails dbcheck: return -1
Invalid_init_lock_queue ==
  /\ ~inited
  /\ initret = NoRet
  /\ ~dbcheck("invalid")
  /\ initret' = <<-1>>
  /\ UNCHANGED <<shared, pc, op, hdl, ret, locals, ncalls, inited, arr>>

\* ---------------------------------------------------------- alloc_lock

\* "gint t = dbh->locks.freelist; if(!t) return 0;".  With lock == 0 the
\* caller prints "Failed to allocate lock." and returns 0.
\* wg_start_read / wg_start_write, up to the first read of alloc_lock
Q_Start(t, o) ==
  /\ inited
  /\ pc[t] = "idle" /\ ncalls[t] < Budget(t)
  /\ dbcheck("valid")
  /\ ncalls' = [ncalls EXCEPT ![t] = @ + 1]
  /\ hdl' = [hdl EXCEPT ![t] = "valid"]
  /\ tl' = [tl EXCEPT ![t] = freelist]
  /\ IF freelist = 0
       THEN Return(t, 0, "idle")
       ELSE /\ pc' = [pc EXCEPT ![t] = "a_incr"]
            /\ op' = [op EXCEPT ![t] = o]
            /\ ret' = [ret EXCEPT ![t] = NoRet]
  /\ UNCHANGED <<shared, lock, prev, nx, nc, fnode, inited, initret, arr>>

wg_start_read(t) == Q_Start(t, "start_read")
wg_start_write(t) == Q_Start(t, "start_write")

\* the for(;;) of alloc_lock, entered again after a failed compare-and-swap
A_Retry(t) ==
  /\ pc[t] = "a_read"
  /\ tl' = [tl EXCEPT ![t] = freelist]
  /\ IF freelist = 0
       THEN Return(t, 0, "idle")
       ELSE /\ pc' = [pc EXCEPT ![t] = "a_incr"]
            /\ UNCHANGED <<op, ret>>
  /\ UNCHANGED <<shared, hdl, lock, prev, nx, nc, fnode, ncalls,
                 inited, initret, arr>>

\* __sync_fetch_and_add(&(tmp->refcount), 2)
A_Incr(t) ==
  /\ pc[t] = "a_incr"
  /\ refcount' = [refcount EXCEPT ![tl[t]] = @ + 2]
  /\ pc' = [pc EXCEPT ![t] = "a_next"]
  /\ UNCHANGED <<gl, qhead, class, state, next, next_cell,
                 op, hdl, ret, locals, ncalls, inited, initret, arr>>

\* the argument tmp->next_cell of the compare-and-swap is read first
A_ReadNextCell(t) ==
  /\ pc[t] = "a_next"
  /\ nc' = [nc EXCEPT ![t] = next_cell[tl[t]]]
  /\ pc' = [pc EXCEPT ![t] = "a_cas"]
  /\ UNCHANGED <<shared, op, hdl, ret, lock, prev, nx, tl, fnode, ncalls,
                 inited, initret, arr>>

\* __sync_bool_compare_and_swap(&(dbh->locks.freelist), t, tmp->next_cell);
\* on failure free_lock(db, t) is called
A_Cas(t) ==
  /\ pc[t] = "a_cas"
  /\ IF freelist = tl[t]
       THEN /\ freelist' = nc[t]
            /\ pc' = [pc EXCEPT ![t] = "a_claim"]
            /\ fnode' = fnode
       ELSE /\ freelist' = freelist
            /\ pc' = [pc EXCEPT ![t] = "f_decr"]
            /\ fnode' = [fnode EXCEPT ![t] = tl[t]]
  /\ nc' = [nc EXCEPT ![t] = 0]
  /\ UNCHANGED <<gl, tail, next_writer, reader_count, qnodes,
                 op, hdl, ret, lock, prev, nx, tl, ncalls,
                 inited, initret, arr>>

\* __sync_fetch_and_add(&(tmp->refcount), -1); return t;
\* the caller then has lock = t
A_Claim(t) ==
  /\ pc[t] = "a_claim"
  /\ refcount' = [refcount EXCEPT ![tl[t]] = @ - 1]
  /\ lock' = [lock EXCEPT ![t] = tl[t]]
  /\ tl' = [tl EXCEPT ![t] = 0]
  /\ pc' = [pc EXCEPT ![t] = IF op[t] = "start_read" THEN "r_init"
                                                      ELSE "w_init"]
  /\ UNCHANGED <<gl, qhead, class, state, next, next_cell,
                 op, hdl, ret, prev, nx, nc, fnode, ncalls,
                 inited, initret, arr>>

\* ----------------------------------------------------------- free_lock

\* __sync_fetch_and_add(&(tmp->refcount), -2)
F_Decr(t) ==
  /\ pc[t] = "f_decr"
  /\ refcount' = [refcount EXCEPT ![fnode[t]] = @ - 2]
  /\ pc' = [pc EXCEPT ![t] = "f_claim"]
  /\ UNCHANGED <<gl, qhead, class, state, next, next_cell,
                 op, hdl, ret, locals, ncalls, inited, initret, arr>>

\* free_lock returns: into the loop of alloc_lock, or to wg_end_*, which
\* returns 1
FreeReturn(t) ==
  /\ fnode' = [fnode EXCEPT ![t] = 0]
  /\ tl' = [tl EXCEPT ![t] = 0]
  /\ IF op[t] \in {"start_read", "start_write"}
       THEN /\ pc' = [pc EXCEPT ![t] = "a_read"]
            /\ UNCHANGED <<op, ret, lock>>
       ELSE /\ Return(t, 1, "idle")
            /\ lock' = [lock EXCEPT ![t] = 0]

\* "Try to set lsb": __sync_bool_compare_and_swap(&(tmp->refcount), 0, 1)
F_Claim(t) ==
  /\ pc[t] = "f_claim"
  /\ IF refcount[fnode[t]] = 0
       THEN /\ refcount' = [refcount EXCEPT ![fnode[t]] = 1]
            /\ pc' = [pc EXCEPT ![t] = "f_read"]
            /\ UNCHANGED <<op, ret, lock, tl, fnode>>
       ELSE /\ refcount' = refcount
            /\ FreeReturn(t)
  /\ UNCHANGED <<gl, qhead, class, state, next, next_cell,
                 hdl, prev, nx, nc, ncalls, inited, initret, arr>>

\* t = dbh->locks.freelist
F_ReadFreelist(t) ==
  /\ pc[t] = "f_read"
  /\ tl' = [tl EXCEPT ![t] = freelist]
  /\ pc' = [pc EXCEPT ![t] = "f_link"]
  /\ UNCHANGED <<shared, op, hdl, ret, lock, prev, nx, nc, fnode, ncalls,
                 inited, initret, arr>>

\* tmp->next_cell = t
F_Link(t) ==
  /\ pc[t] = "f_link"
  /\ next_cell' = [next_cell EXCEPT ![fnode[t]] = tl[t]]
  /\ pc' = [pc EXCEPT ![t] = "f_cas"]
  /\ UNCHANGED <<gl, qhead, class, state, next, refcount,
                 op, hdl, ret, locals, ncalls, inited, initret, arr>>

\* while (!__sync_bool_compare_and_swap(&(dbh->locks.freelist), t, node))
F_Cas(t) ==
  /\ pc[t] = "f_cas"
  /\ IF freelist = tl[t]
       THEN /\ freelist' = fnode[t]
            /\ FreeReturn(t)
       ELSE /\ freelist' = freelist
            /\ pc' = [pc EXCEPT ![t] = "f_read"]
            /\ UNCHANGED <<op, ret, lock, tl, fnode>>
  /\ UNCHANGED <<gl, tail, next_writer, reader_count, qnodes,
                 hdl, prev, nx, nc, ncalls, inited, initret, arr>>

\* ------------------------------------------------------ wg_start_write

\* lockp->class = LOCKQ_WRITE; lockp->next = 0; lockp->state = 1;
\* (three stores into the cell just allocated, taken as one step)
W_Init(t) ==
  /\ pc[t] = "w_init"
  /\ class' = [class EXCEPT ![lock[t]] = LOCKQ_WRITE]
  /\ next' = [next EXCEPT ![lock[t]] = 0]
  /\ state' = [state EXCEPT ![lock[t]] = 1]
  /\ pc' = [pc EXCEPT ![t] = "w_tail"]
  /\ UNCHANGED <<gl, qhead, next_cell, refcount,
                 op, hdl, ret, locals, ncalls, inited, initret, arr>>

\* prev = fetch_and_store(&(dbh->locks.tail), lock); if(!prev) ... else ...
W_Tail(t) ==
  /\ pc[t] = "w_tail"
  /\ prev' = [prev EXCEPT ![t] = tail]
  /\ tail' = lock[t]
  /\ arr' = Arrive(t)
  /\ pc' = [pc EXCEPT ![t] = IF tail = 0 THEN "w_setnw" ELSE "w_orprev"]
  /\ UNCHANGED <<gl, next_writer, reader_count, freelist, qnodes,
                 op, hdl, ret, lock, nx, tl, nc, fnode, ncalls,
                 inited, initret>>

\* dbh->locks.next_writer = lock
W_SetNextWriter(t) ==
  /\ pc[t] = "w_setnw"
  /\ next_writer' = lock[t]
  /\ pc' = [pc EXCEPT ![t] = "w_readrc"]
  /\ UNCHANGED <<gl, tail, reader_count, freelist, qnodes,
                 op, hdl, ret, locals, ncalls, inited, initret, arr>>

\* if(!dbh->locks.reader_count && ...
W_ReadReaderCount(t) ==
  /\ pc[t] = "w_readrc"
  /\ pc' = [pc EXCEPT ![t] = IF reader_count = 0 THEN "w_xchg" ELSE "w_wait"]
  /\ UNCHANGED <<shared, op, hdl, ret, locals, ncalls, inited, initret, arr>>

\* ... fetch_and_store(&(dbh->locks.next_writer), 0) == lock)
W_XchgNextWriter(t) ==
  /\ pc[t] = "w_xchg"
  /\ next_writer' = 0
  /\ pc' = [pc EXCEPT ![t] = IF next_writer = lock[t] THEN "w_unblock"
                                                       ELSE "w_wait"]
  /\ UNCHANGED <<gl, tail, reader_count, freelist, qnodes,
                 op, hdl, ret, locals, ncalls, inited, initret, arr>>

\* atomic_and(&(lockp->state), ~1)
W_Unblock(t) ==
  /\ pc[t] = "w_unblock"
  /\ state' = [state EXCEPT ![lock[t]] = AndNot(@, 1)]
  /\ pc' = [pc EXCEPT ![t] = "w_wait"]
  /\ UNCHANGED <<gl, qhead, class, next, next_cell, refcount,
                 op, hdl, ret, locals, ncalls, inited, initret, arr>>

\* atomic_or(&(prevp->state), LOCKQ_WRITE)
W_OrPrev(t) ==
  /\ pc[t] = "w_orprev"
  /\ state' = [state EXCEPT ![prev[t]] = OrMask(@, LOCKQ_WRITE)]
  /\ pc' = [pc EXCEPT ![t] = "w_link"]
  /\ UNCHANGED <<gl, qhead, class, next, next_cell, refcount,
                 op, hdl, ret, locals, ncalls, inited, initret, arr>>

\* prevp->next = lock
W_Link(t) ==
  /\ pc[t] = "w_link"
  /\ next' = [next EXCEPT ![prev[t]] = lock[t]]
  /\ prev' = [prev EXCEPT ![t] = 0]
  /\ pc' = [pc EXCEPT ![t] = "w_wait"]
  /\ UNCHANGED <<gl, qhead, class, state, next_cell, refcount,
                 op, hdl, ret, lock, nx, tl, nc, fnode, ncalls,
                 inited, initret, arr>>

\* if(lockp->state & 1) { spin until !(lockp->state & 1) } return lock;
W_Wait(t) ==
  /\ pc[t] = "w_wait"
  /\ ~TestMask(state[lock[t]], 1)
  /\ prev' = [prev EXCEPT ![t] = 0]
  /\ arr' = Leave(t)
  /\ Return(t, lock[t], "writing")
  /\ UNCHANGED <<shared, hdl, lock, nx, tl, nc, fnode, ncalls,
                 inited, initret>>

\* -------------------------------------------------------- wg_end_write

\* the call, and the first operand lockp->next of
\* if(lockp->next || !compare_and_swap(&(dbh->locks.tail), lock, 0))
wg_end_write(t) ==
  /\ pc[t] = "writing"
  /\ dbcheck("valid")
  /\ hdl' = [hdl EXCEPT ![t] = "valid"]
  /\ op' = [op EXCEPT ![t] = "end_write"]
  /\ ret' = [ret EXCEPT ![t] = NoRet]
  /\ pc' = [pc EXCEPT ![t] = IF next[lock[t]] # 0 THEN "ew_wait"
                                                   ELSE "ew_cas"]
  /\ UNCHANGED <<shared, locals, ncalls, inited, initret, arr>>

\* compare_and_swap(&(dbh->locks.tail), lock, 0); when it succeeds the
\* successor handling is skipped and free_lock(db, lock) is called
EW_Cas(t) ==
  /\ pc[t] = "ew_cas"
  /\ IF tail = lock[t]
       THEN /\ tail' = 0
            /\ pc' = [pc EXCEPT ![t] = "f_decr"]
            /\ fnode' = [fnode EXCEPT ![t] = lock[t]]
       ELSE /\ tail' = tail
            /\ pc' = [pc EXCEPT ![t] = "ew_wait"]
            /\ fnode' = fnode
  /\ UNCHANGED <<gl, next_writer, reader_count, freelist, qnodes,
                 op, hdl, ret, lock, prev, nx, tl, nc, ncalls,
                 inited, initret, arr>>

\* while(!lockp->next); nextp = offsettoptr(db, lockp->next)
EW_Wait(t) ==
  /\ pc[t] = "ew_wait"
  /\ next[lock[t]] # 0
  /\ nx' = [nx EXCEPT ![t] = next[lock[t]]]
  /\ pc' = [pc EXCEPT ![t] = "ew_class"]
  /\ UNCHANGED <<shared, op, hdl, ret, lock, prev, tl, nc, fnode, ncalls,
                 inited, initret, arr>>

\* if(nextp->class & LOCKQ_READ)
EW_Class(t) ==
  /\ pc[t] = "ew_class"
  /\ pc' = [pc EXCEPT ![t] = IF TestMask(class[nx[t]], LOCKQ_READ)
                               THEN "ew_incr" ELSE "ew_unblock"]
  /\ UNCHANGED <<shared, op, hdl, ret, locals, ncalls, inited, initret, arr>>

\* atomic_increment(&(dbh->locks.reader_count), 1)
EW_Incr(t) ==
  /\ pc[t] = "ew_incr"
  /\ reader_count' = reader_count + 1
  /\ pc' = [pc EXCEPT ![t] = "ew_unblock"]
  /\ UNCHANGED <<gl, tail, next_writer, freelist, qnodes,
                 op, hdl, ret, locals, ncalls, inited, initret, arr>>

\* atomic_and(&(nextp->state), ~1); then free_lock(db, lock)
EW_Unblock(t) ==
  /\ pc[t] = "ew_unblock"
  /\ state' = [state EXCEPT ![nx[t]] = AndNot(@, 1)]
  /\ nx' = [nx EXCEPT ![t] = 0]
  /\ fnode' = [fnode EXCEPT ![t] = lock[t]]
  /\ pc' = [pc EXCEPT ![t] = "f_decr"]
  /\ UNCHANGED <<gl, qhead, class, next, next_cell, refcount,
                 op, hdl, ret, lock, prev, tl, nc, ncalls,
                 inited, initret, arr>>

\* ------------------------------------------------------- wg_start_read

\* lockp->class = LOCKQ_READ; lockp->next = 0; lockp->state = 1;
R_Init(t) ==
  /\ pc[t] = "r_init"
  /\ class' = [class EXCEPT ![lock[t]] = LOCKQ_READ]
  /\ next' = [next EXCEPT ![lock[t]] = 0]
  /\ state' = [state EXCEPT ![lock[t]] = 1]
  /\ pc' = [pc EXCEPT ![t] = "r_tail"]
  /\ UNCHANGED <<gl, qhead, next_cell, refcount,
                 op, hdl, ret, locals, ncalls, inited, initret, arr>>

\* prev = fetch_and_store(&(dbh->locks.tail), lock); if(!prev) ... else ...
R_Tail(t) ==
  /\ pc[t] = "r_tail"
  /\ prev' = [prev EXCEPT ![t] = tail]
  /\ tail' = lock[t]
  /\ arr' = Arrive(t)
  /\ pc' = [pc EXCEPT ![t] = IF tail = 0 THEN "r_incr" ELSE "r_class"]
  /\ UNCHANGED <<gl, next_writer, reader_count, freelist, qnodes,
                 op, hdl, ret, lock, nx, tl, nc, fnode, ncalls,
                 inited, initret>>

\* no predecessor: atomic_increment(&(dbh->locks.reader_count), 1)
R_Incr(t) ==
  /\ pc[t] = "r_incr"
  /\ reader_count' = reader_count + 1
  /\ pc' = [pc EXCEPT ![t] = "r_unblock"]
  /\ UNCHANGED <<gl, tail, next_writer, freelist, qnodes,
                 op, hdl, ret, locals, ncalls, inited, initret, arr>>

\* atomic_and(&(lockp->state), ~1), of both branches that do not wait
R_Unblock(t) ==
  /\ pc[t] = "r_unblock"
  /\ state' = [state EXCEPT ![lock[t]] = AndNot(@, 1)]
  /\ pc' = [pc EXCEPT ![t] = "r_cont"]
  /\ UNCHANGED <<gl, qhead, class, next, next_cell, refcount,
                 op, hdl, ret, locals, ncalls, inited, initret, arr>>

\* if(prevp->class & LOCKQ_WRITE || ...
R_Class(t) ==
  /\ pc[t] = "r_class"
  /\ pc' = [pc EXCEPT ![t] = IF TestMask(class[prev[t]], LOCKQ_WRITE)
                               THEN "r_link" ELSE "r_casprev"]
  /\ UNCHANGED <<shared, op, hdl, ret, locals, ncalls, inited, initret, arr>>

\* ... compare_and_swap(&(prevp->state), 1, 1|(LOCKQ_READ)))
R_CasPrev(t) ==
  /\ pc[t] = "r_casprev"
  /\ IF state[prev[t]] = 1
       THEN /\ state' = [state EXCEPT ![prev[t]] = OrMask(1, LOCKQ_READ)]
            /\ pc' = [pc EXCEPT ![t] = "r_link"]
       ELSE /\ state' = state
            /\ pc' = [pc EXCEPT ![t] = "r_join"]
  /\ UNCHANGED <<gl, qhead, class, next, next_cell, refcount,
                 op, hdl, ret, locals, ncalls, inited, initret, arr>>

\* predecessor is a writer or a blocked reader: prevp->next = lock
R_Link(t) ==
  /\ pc[t] = "r_link"
  /\ next' = [next EXCEPT ![prev[t]] = lock[t]]
  /\ prev' = [prev EXCEPT ![t] = 0]
  /\ pc' = [pc EXCEPT ![t] = "r_wait"]
  /\ UNCHANGED <<gl, qhead, class, state, next_cell, refcount,
                 op, hdl, ret, lock, nx, tl, nc, fnode, ncalls,
                 inited, initret, arr>>

\* if(lockp->state & 1) { spin until !(lockp->state & 1) } goto rd_lock_cont
R_Wait(t) ==
  /\ pc[t] = "r_wait"
  /\ ~TestMask(state[lock[t]], 1)
  /\ pc' = [pc EXCEPT ![t] = "r_cont"]
  /\ UNCHANGED <<shared, op, hdl, ret, locals, ncalls, inited, initret, arr>>

\* predecessor is an active reader:
\* atomic_increment(&(dbh->locks.reader_count), 1)
R_Join(t) ==
  /\ pc[t] = "r_join"
  /\ reader_count' = reader_count + 1
  /\ pc' = [pc EXCEPT ![t] = "r_joinlink"]
  /\ UNCHANGED <<gl, tail, next_writer, freelist, qnodes,
                 op, hdl, ret, locals, ncalls, inited, initret, arr>>

\* prevp->next = lock, of the same branch
R_JoinLink(t) ==
  /\ pc[t] = "r_joinlink"
  /\ next' = [next EXCEPT ![prev[t]] = lock[t]]
  /\ prev' = [prev EXCEPT ![t] = 0]
  /\ pc' = [pc EXCEPT ![t] = "r_unblock"]
  /\ UNCHANGED <<gl, qhead, class, state, next_cell, refcount,
                 op, hdl, ret, lock, nx, tl, nc, fnode, ncalls,
                 inited, initret, arr>>

\* rd_lock_cont: if(lockp->state & LOCKQ_READ) ... ; return lock
R_Cont(t) ==
  /\ pc[t] = "r_cont"
  /\ IF TestMask(state[lock[t]], LOCKQ_READ)
       THEN /\ pc' = [pc EXCEPT ![t] = "r_waitnext"]
            /\ UNCHANGED <<op, ret, arr>>
       ELSE /\ Return(t, lock[t], "reading")
            /\ arr' = Leave(t)
  /\ UNCHANGED <<shared, hdl, locals, ncalls, inited, initret>>

\* while(!lockp->next);
R_WaitNext(t) ==
  /\ pc[t] = "r_waitnext"
  /\ next[lock[t]] # 0
  /\ pc' = [pc EXCEPT ![t] = "r_incrnext"]
  /\ UNCHANGED <<shared, op, hdl, ret, locals, ncalls, inited, initret, arr>>

\* atomic_increment(&(dbh->locks.reader_count), 1), for the successor
R_IncrNext(t) ==
  /\ pc[t] = "r_incrnext"
  /\ reader_count' = reader_count + 1
  /\ pc' = [pc EXCEPT ![t] = "r_wake"]
  /\ UNCHANGED <<gl, tail, next_writer, freelist, qnodes,
                 op, hdl, ret, locals, ncalls, inited, initret, arr>>

\* nextp = offsettoptr(db, lockp->next); atomic_and(&(nextp->state), ~1);
\* return lock
R_Wake(t) ==
  /\ pc[t] = "r_wake"
  /\ state' = [state EXCEPT ![next[lock[t]]] = AndNot(@, 1)]
  /\ arr' = Leave(t)
  /\ Return(t, lock[t], "reading")
  /\ UNCHANGED <<gl, qhead, class, next, next_cell, refcount,
                 hdl, locals, ncalls, inited, initret>>

\* --------------------------------------------------------- wg_end_read

\* the call, and the first operand lockp->next of
\* if(lockp->next || !compare_and_swap(&(dbh->locks.tail), lock, 0))
wg_end_read(t) ==
  /\ pc[t] = "reading"
  /\ dbcheck("valid")
  /\ hdl' = [hdl EXCEPT ![t] = "valid"]
  /\ op' = [op EXCEPT ![t] = "end_read"]
  /\ ret' = [ret EXCEPT ![t] = NoRet]
  /\ pc' = [pc EXCEPT ![t] = IF next[lock[t]] # 0 THEN "er_wait"
                                                   ELSE "er_cas"]
  /\ UNCHANGED <<shared, locals, ncalls, inited, initret, arr>>

\* compare_and_swap(&(dbh->locks.tail), lock, 0)
ER_Cas(t) ==
  /\ pc[t] = "er_cas"
  /\ IF tail = lock[t]
       THEN /\ tail' = 0
            /\ pc' = [pc EXCEPT ![t] = "er_dec"]
       ELSE /\ tail' = tail
            /\ pc' = [pc EXCEPT ![t] = "er_wait"]
  /\ UNCHANGED <<gl, next_writer, reader_count, freelist, qnodes,
                 op, hdl, ret, locals, ncalls, inited, initret, arr>>

\* while(!lockp->next); if(lockp->state & LOCKQ_WRITE)
ER_Wait(t) ==
  /\ pc[t] = "er_wait"
  /\ next[lock[t]] # 0
  /\ pc' = [pc EXCEPT ![t] = "er_state"]
  /\ UNCHANGED <<shared, op, hdl, ret, locals, ncalls, inited, initret, arr>>

ER_State(t) ==
  /\ pc[t] = "er_state"
  /\ pc' = [pc EXCEPT ![t] = IF TestMask(state[lock[t]], LOCKQ_WRITE)
                               THEN "er_setnw" ELSE "er_dec"]
  /\ UNCHANGED <<shared, op, hdl, ret, locals, ncalls, inited, initret, arr>>

\* dbh->locks.next_writer = lockp->next
ER_SetNextWriter(t) ==
  /\ pc[t] = "er_setnw"
  /\ next_writer' = next[lock[t]]
  /\ pc' = [pc EXCEPT ![t] = "er_dec"]
  /\ UNCHANGED <<gl, tail, reader_count, freelist, qnodes,
                 op, hdl, ret, locals, ncalls, inited, initret, arr>>

\* if(fetch_and_add(&(dbh->locks.reader_count), -1) == 1) ...
\* else free_lock(db, lock)
ER_Dec(t) ==
  /\ pc[t] = "er_dec"
  /\ reader_count' = reader_count - 1
  /\ IF reader_count = 1
       THEN /\ pc' = [pc EXCEPT ![t] = "er_xchg"]
            /\ fnode' = fnode
       ELSE /\ pc' = [pc EXCEPT ![t] = "f_decr"]
            /\ fnode' = [fnode EXCEPT ![t] = lock[t]]
  /\ UNCHANGED <<gl, tail, next_writer, freelist, qnodes,
                 op, hdl, ret, lock, prev, nx, tl, nc, ncalls,
                 inited, initret, arr>>

\* gint w = fetch_and_store(&(dbh->locks.next_writer), 0); if(w) ...
ER_Xchg(t) ==
  /\ pc[t] = "er_xchg"
  /\ next_writer' = 0
  /\ IF next_writer # 0
       THEN /\ nx' = [nx EXCEPT ![t] = next_writer]
            /\ pc' = [pc EXCEPT ![t] = "er_unblock"]
            /\ fnode' = fnode
       ELSE /\ nx' = nx
            /\ pc' = [pc EXCEPT ![t] = "f_decr"]
            /\ fnode' = [fnode EXCEPT ![t] = lock[t]]
  /\ UNCHANGED <<gl, tail, reader_count, freelist, qnodes,
                 op, hdl, ret, lock, prev, tl, nc, ncalls,
                 inited, initret, arr>>

\* atomic_and(&(wp->state), ~1); then free_lock(db, lock)
ER_Unblock(t) ==
  /\ pc[t] = "er_unblock"
  /\ state' = [state EXCEPT ![nx[t]] = AndNot(@, 1)]
  /\ nx' = [nx EXCEPT ![t] = 0]
  /\ fnode' = [fnode EXCEPT ![t] = lock[t]]
  /\ pc' = [pc EXCEPT ![t] = "f_decr"]
  /\ UNCHANGED <<gl, qhead, class, next, next_cell, refcount,
                 op, hdl, ret, lock, prev, tl, nc, ncalls,
                 inited, initret, arr>>

Q_InvalidStartWrite(t) == inited /\ InvalidCall(t, "idle", 0)
Q_InvalidStartRead(t) == inited /\ InvalidCall(t, "idle", 0)
Q_InvalidEndWrite(t) == InvalidCall(t, "writing", 0)
Q_InvalidEndRead(t) == InvalidCall(t, "reading", 0)

NextQ ==
  \/ init_lock_queue(MaxNodes)
  \/ Invalid_init_lock_queue
  \/ \E t \in Threads :
       \/ wg_start_read(t) \/ wg_start_write(t)
       \/ A_Retry(t) \/ A_Incr(t) \/ A_ReadNextCell(t) \/ A_Cas(t)
       \/ A_Claim(t)
       \/ F_Decr(t) \/ F_Claim(t) \/ F_ReadFreelist(t) \/ F_Link(t)
       \/ F_Cas(t)
       \/ W_Init(t) \/ W_Tail(t) \/ W_SetNextWriter(t)
       \/ W_ReadReaderCount(t) \/ W_XchgNextWriter(t) \/ W_Unblock(t)
       \/ W_OrPrev(t) \/ W_Link(t) \/ W_Wait(t)
       \/ wg_end_write(t) \/ EW_Cas(t) \/ EW_Wait(t) \/ EW_Class(t)
       \/ EW_Incr(t) \/ EW_Unblock(t)
       \/ R_Init(t) \/ R_Tail(t) \/ R_Incr(t) \/ R_Unblock(t)
       \/ R_Class(t) \/ R_CasPrev(t) \/ R_Link(t) \/ R_Wait(t)
       \/ R_Join(t) \/ R_JoinLink(t) \/ R_Cont(t) \/ R_WaitNext(t)
       \/ R_IncrNext(t) \/ R_Wake(t)
       \/ wg_end_read(t) \/ ER_Cas(t) \/ ER_Wait(t) \/ ER_State(t)
       \/ ER_SetNextWriter(t) \/ ER_Dec(t) \/ ER_Xchg(t) \/ ER_Unblock(t)
       \/ Q_InvalidStartWrite(t) \/ Q_InvalidStartRead(t)
       \/ Q_InvalidEndWrite(t) \/ Q_InvalidEndRead(t)

SpecQ == Init /\ [][NextQ]_vars

\* --------------------------------------------------------------------
\* The same lock with every call of alloc_lock and free_lock running
\* without interruption (one possible scheduling of the code).  A behaviour
\* of SpecQU is a behaviour of the code in which no thread is preempted
\* inside the pool; it separates what the queue protocol does from what the
\* pool does.
\* --------------------------------------------------------------------

\* wg_start_read / wg_start_write with alloc_lock run to its return:
\* t = freelist; refcount += 2; freelist = next_cell; refcount -= 1
QU_Start(t, o) ==
  /\ inited
  /\ pc[t] = "idle" /\ ncalls[t] < Budget(t)
  /\ dbcheck("valid")
  /\ ncalls' = [ncalls EXCEPT ![t] = @ + 1]
  /\ hdl' = [hdl EXCEPT ![t] = "valid"]
  /\ IF freelist = 0
       THEN /\ Return(t, 0, "idle")
            /\ UNCHANGED <<freelist, refcount, lock>>
       ELSE /\ refcount' = [refcount EXCEPT ![freelist] = @ + 2 - 1]
            /\ freelist' = next_cell[freelist]
            /\ lock' = [lock EXCEPT ![t] = freelist]
            /\ pc' = [pc EXCEPT ![t] = IF o = "start_read" THEN "r_init"
                                                            ELSE "w_init"]
            /\ op' = [op EXCEPT ![t] = o]
            /\ ret' = [ret EXCEPT ![t] = NoRet]
  /\ UNCHANGED <<gl, tail, next_writer, reader_count, class, state, next,
                 next_cell, prev, nx, tl, nc, fnode, inited, initret, arr>>

QU_start_read(t) == QU_Start(t, "start_read")
QU_start_write(t) == QU_Start(t, "start_write")

\* free_lock run to its return: refcount -= 2; if it is 0 now, refcount = 1,
\* next_cell = freelist, freelist = node
QU_Free(t) ==
  /\ pc[t] = "f_decr"
  /\ IF refcount[fnode[t]] - 2 = 0
       THEN /\ refcount' = [refcount EXCEPT ![fnode[t]] = 1]
            /\ next_cell' = [next_cell EXCEPT ![fnode[t]] = freelist]
            /\ freelist' = fnode[t]
       ELSE /\ refcount' = [refcount EXCEPT ![fnode[t]] = @ - 2]
            /\ UNCHANGED <<next_cell, freelist>>
  /\ FreeReturn(t)
  /\ UNCHANGED <<gl, tail, next_writer, reader_count, class, state, next,
                 hdl, prev, nx, nc, ncalls, inited, initret, arr>>

NextQU ==
  \/ init_lock_queue(MaxNodes)
  \/ Invalid_init_lock_queue
  \/ \E t \in Threads :
       \/ QU_start_read(t) \/ QU_start_write(t)
       \/ QU_Free(t)
       \/ W_Init(t) \/ W_Tail(t) \/ W_SetNextWriter(t)
       \/ W_ReadReaderCount(t) \/ W_XchgNextWriter(t) \/ W_Unblock(t)
       \/ W_OrPrev(t) \/ W_Link(t) \/ W_Wait(t)
       \/ wg_end_write(t) \/ EW_Cas(t) \/ EW_Wait(t) \/ EW_Class(t)
       \/ EW_Incr(t) \/ EW_Unblock(t)
       \/ R_Init(t) \/ R_Tail(t) \/ R_Incr(t) \/ R_Unblock(t)
       \/ R_Class(t) \/ R_CasPrev(t) \/ R_Link(t) \/ R_Wait(t)
       \/ R_Join(t) \/ R_JoinLink(t) \/ R_Cont(t) \/ R_WaitNext(t)
       \/ R_IncrNext(t) \/ R_Wake(t)
       \/ wg_end_read(t) \/ ER_Cas(t) \/ ER_Wait(t) \/ ER_State(t)
       \/ ER_SetNextWriter(t) \/ ER_Dec(t) \/ ER_Xchg(t) \/ ER_Unblock(t)
       \/ Q_InvalidStartWrite(t) \/ Q_InvalidStartRead(t)
       \/ Q_InvalidEndWrite(t) \/ Q_InvalidEndRead(t)

SpecQU == Init /\ [][NextQU]_vars

\* --------------------------------------------------------------------
\* The same lock with the queue protocol running without interruption from
\* one wait to the next, the pool operations keeping every step of their
\* own (again one possible scheduling of the code).  A behaviour of SpecQP
\* is a behaviour of the code in which a thread is preempted only inside
\* alloc_lock and free_lock and where it spins.
\* --------------------------------------------------------------------

\* wg_start_write from the stores into the new cell to the spin:
\* class, next, state; prev = fetch_and_store(tail); then either
\* next_writer = lock and the test of reader_count with the
\* fetch_and_store of next_writer, or atomic_or on prev and prevp->next
QP_W_Enqueue(t) ==
  LET l == lock[t]
      p == tail
      s1 == [state EXCEPT ![l] = 1]
      n1 == [next EXCEPT ![l] = 0]
  IN
  /\ pc[t] = "w_init"
  /\ class' = [class EXCEPT ![l] = LOCKQ_WRITE]
  /\ tail' = l
  /\ arr' = Arrive(t)
  /\ IF p = 0
       THEN /\ next' = n1
            /\ IF reader_count = 0
                 THEN /\ next_writer' = 0
                      /\ state' = [s1 EXCEPT ![l] = AndNot(@, 1)]
                 ELSE /\ next_writer' = l
                      /\ state' = s1
       ELSE /\ state' = [s1 EXCEPT ![p] = OrMask(@, LOCKQ_WRITE)]
            /\ next' = [n1 EXCEPT ![p] = l]
            /\ next_writer' = next_writer
  /\ pc' = [pc EXCEPT ![t] = "w_wait"]
  /\ UNCHANGED <<gl, reader_count, freelist, next_cell, refcount,
                 op, hdl, ret, locals, ncalls, inited, initret>>

\* wg_end_write up to the wait for the successor or the call of free_lock
QP_EndWrite(t) ==
  /\ pc[t] = "writing"
  /\ dbcheck("valid")
  /\ hdl' = [hdl EXCEPT ![t] = "valid"]
  /\ op' = [op EXCEPT ![t] = "end_write"]
  /\ ret' = [ret EXCEPT ![t] = NoRet]
  /\ IF next[lock[t]] = 0 /\ tail = lock[t]
       THEN /\ tail' = 0
            /\ pc' = [pc EXCEPT ![t] = "f_decr"]
            /\ fnode' = [fnode EXCEPT ![t] = lock[t]]
       ELSE /\ tail' = tail
            /\ pc' = [pc EXCEPT ![t] = "ew_wait"]
            /\ fnode' = fnode
  /\ UNCHANGED <<gl, next_writer, reader_count, freelist, qnodes,
                 lock, prev, nx, tl, nc, ncalls, inited, initret, arr>>

\* wg_end_write from the end of while(!lockp->next) to free_lock
QP_EW_Handoff(t) ==
  LET n == next[lock[t]] IN
  /\ pc[t] = "ew_wait"
  /\ n # 0
  /\ reader_count' = IF TestMask(class[n], LOCKQ_READ)
                       THEN reader_count + 1 ELSE reader_count
  /\ state' = [state EXCEPT ![n] = AndNot(@, 1)]
  /\ fnode' = [fnode EXCEPT ![t] = lock[t]]
  /\ pc' = [pc EXCEPT ![t] = "f_decr"]
  /\ UNCHANGED <<gl, tail, next_writer, freelist, class, next, next_cell,
                 refcount, op, hdl, ret, lock, prev, nx, tl, nc, ncalls,
                 inited, initret, arr>>

\* wg_start_read from the stores into the new cell to the spin or, when
\* the reader does not have to wait, to its return (the cell was just
\* initialised, so rd_lock_cont finds no successor)
QP_R_Enqueue(t) ==
  LET l == lock[t]
      p == tail
      c1 == [class EXCEPT ![l] = LOCKQ_READ]
      s1 == [state EXCEPT ![l] = 1]
      n1 == [next EXCEPT ![l] = 0]
      waits == p # 0 /\ (TestMask(c1[p], LOCKQ_WRITE) \/ s1[p] = 1)
  IN
  /\ pc[t] = "r_init"
  /\ class' = c1
  /\ tail' = l
  /\ next' = IF p = 0 THEN n1 ELSE [n1 EXCEPT ![p] = l]
  /\ IF waits
       THEN /\ state' = IF TestMask(c1[p], LOCKQ_WRITE) THEN s1
                        ELSE [s1 EXCEPT ![p] = OrMask(1, LOCKQ_READ)]
            /\ reader_count' = reader_count
            /\ pc' = [pc EXCEPT ![t] = "r_wait"]
            /\ arr' = Arrive(t)
            /\ UNCHANGED <<op, ret>>
       ELSE /\ state' = [s1 EXCEPT ![l] = AndNot(@, 1)]
            /\ reader_count' = reader_count + 1
            /\ IF TestMask(AndNot(s1[l], 1), LOCKQ_READ)
                 THEN /\ pc' = [pc EXCEPT ![t] = "r_waitnext"]
                      /\ arr' = Arrive(t)
                      /\ UNCHANGED <<op, ret>>
                 ELSE /\ Return(t, l, "reading")
                      /\ arr' = Leave(t)
  /\ UNCHANGED <<gl, next_writer, freelist, next_cell, refcount,
                 hdl, locals, ncalls, inited, initret>>

\* the end of the spin of wg_start_read and rd_lock_cont
QP_R_Wait(t) ==
  /\ pc[t] = "r_wait"
  /\ ~TestMask(state[lock[t]], 1)
  /\ IF TestMask(state[lock[t]], LOCKQ_READ)
       THEN /\ pc' = [pc EXCEPT ![t] = "r_waitnext"]
            /\ UNCHANGED <<op, ret, arr>>
       ELSE /\ Return(t, lock[t], "reading")
            /\ arr' = Leave(t)
  /\ UNCHANGED <<shared, hdl, locals, ncalls, inited, initret>>

\* the end of while(!lockp->next), the increment and the wake of the
\* successor
QP_R_Propagate(t) ==
  /\ pc[t] = "r_waitnext"
  /\ next[lock[t]] # 0
  /\ reader_count' = reader_count + 1
  /\ state' = [state EXCEPT ![next[lock[t]]] = AndNot(@, 1)]
  /\ arr' = Leave(t)
  /\ Return(t, lock[t], "reading")
  /\ UNCHANGED <<gl, tail, next_writer, freelist, class, next, next_cell,
                 refcount, hdl, locals, ncalls, inited, initret>>

\* wg_end_read after the successor test: next_writer = lockp->next when the
\* successor is a writer, the decrement of reader_count, and the hand-off
\* to next_writer by the reader that brought the count to 0
ER_Release(t) ==
  LET l == lock[t]
      nw == IF next[l] # 0 /\ TestMask(state[l], LOCKQ_WRITE)
              THEN next[l] ELSE next_writer
  IN
  /\ reader_count' = reader_count - 1
  /\ IF reader_count = 1
       THEN /\ next_writer' = 0
            /\ state' = IF nw # 0 THEN [state EXCEPT ![nw] = AndNot(@, 1)]
                                  ELSE state
       ELSE /\ next_writer' = nw
            /\ state' = state
  /\ fnode' = [fnode EXCEPT ![t] = l]
  /\ pc' = [pc EXCEPT ![t] = "f_decr"]

\* wg_end_read up to the wait for the successor or the call of free_lock
QP_EndRead(t) ==
  /\ pc[t] = "reading"
  /\ dbcheck("valid")
  /\ hdl' = [hdl EXCEPT ![t] = "valid"]
  /\ op' = [op EXCEPT ![t] = "end_read"]
  /\ ret' = [ret EXCEPT ![t] = NoRet]
  /\ IF next[lock[t]] = 0 /\ tail = lock[t]
       THEN /\ tail' = 0
            /\ ER_Release(t)
       ELSE /\ pc' = [pc EXCEPT ![t] = "er_wait"]
            /\ UNCHANGED <<tail, next_writer, reader_count, state, fnode>>
  /\ UNCHANGED <<gl, freelist, class, next, next_cell, refcount,
                 lock, prev, nx, tl, nc, ncalls, inited, initret, arr>>

\* wg_end_read from the end of while(!lockp->next) to free_lock
QP_ER_Handoff(t) ==
  /\ pc[t] = "er_wait"
  /\ next[lock[t]] # 0
  /\ ER_Release(t)
  /\ UNCHANGED <<gl, tail, freelist, class, next, next_cell, refcount,
                 op, hdl, ret, lock, prev, nx, tl, nc, ncalls,
                 inited, initret, arr>>

NextQP ==
  \/ init_lock_queue(MaxNodesP)
  \/ Invalid_init_lock_queue
  \/ \E t \in Threads :
       \/ wg_start_read(t) \/ wg_start_write(t)
       \/ A_Retry(t) \/ A_Incr(t) \/ A_ReadNextCell(t) \/ A_Cas(t)
       \/ A_Claim(t)
       \/ F_Decr(t) \/ F_Claim(t) \/ F_ReadFreelist(t) \/ F_Link(t)
       \/ F_Cas(t)
       \/ QP_W_Enqueue(t) \/ W_Wait(t)
       \/ QP_EndWrite(t) \/ QP_EW_Handoff(t)
       \/ QP_R_Enqueue(t) \/ QP_R_Wait(t) \/ QP_R_Propagate(t)
       \/ QP_EndRead(t) \/ QP_ER_Handoff(t)
       \/ Q_InvalidStartWrite(t) \/ Q_InvalidStartRead(t)
       \/ Q_InvalidEndWrite(t) \/ Q_InvalidEndRead(t)

SpecQP == Init /\ [][NextQP]_vars

\* ====================================================================
\* Properties of the queued lock
\* ====================================================================

\* --------------------------------------------------------------------
\* SpecQB: the reader-batching scenario.  One writer thread (thread 1)
\* and NThreads reader threads, of which all but thread 2 queue behind
\* the writer; alloc_lock and free_lock run without
\* interruption, the start calls and wg_end_write run without interruption
\* between their waits, and wg_end_read is interleaved step by step.
\* --------------------------------------------------------------------

InitB ==
  /\ gl = 0
  /\ tail = 0 /\ next_writer = 0 /\ reader_count = 0 /\ freelist = 0
  /\ class = [c \in Cells |-> 0]
  /\ state = [c \in Cells |-> 0]
  /\ next = [c \in Cells |-> 0]
  /\ next_cell = [c \in Cells |-> 0]
  /\ refcount = [c \in Cells |-> 0]
  /\ pc = [t \in ThreadsB |-> "idle"]
  /\ op = [t \in ThreadsB |-> "none"]
  /\ hdl = [t \in ThreadsB |-> "valid"]
  /\ ret = [t \in ThreadsB |-> NoRet]
  /\ lock = [t \in ThreadsB |-> 0]
  /\ prev = [t \in ThreadsB |-> 0]
  /\ nx = [t \in ThreadsB |-> 0]
  /\ tl = [t \in ThreadsB |-> 0]
  /\ nc = [t \in ThreadsB |-> 0]
  /\ fnode = [t \in ThreadsB |-> 0]
  /\ ncalls = [t \in ThreadsB |-> 0]
  /\ inited = FALSE
  /\ initret = NoRet
  /\ arr = <<>>

\* wg_end_read from the end of its wait to the fetch_and_add of
\* reader_count: if(lockp->state & LOCKQ_WRITE) next_writer = lockp->next;
\* fetch_and_add(&reader_count, -1); the fetch_and_store of next_writer is
\* the thread's next step
QB_ER_Decrement(t) ==
  LET l == lock[t] IN
  /\ next_writer' = IF next[l] # 0 /\ TestMask(state[l], LOCKQ_WRITE)
                      THEN next[l] ELSE next_writer
  /\ reader_count' = reader_count - 1
  /\ IF reader_count = 1
       THEN /\ pc' = [pc EXCEPT ![t] = "er_xchg"]
            /\ fnode' = fnode
       ELSE /\ pc' = [pc EXCEPT ![t] = "f_decr"]
            /\ fnode' = [fnode EXCEPT ![t] = l]

\* wg_end_read up to the wait for the successor or to the fetch_and_add
QB_EndRead(t) ==
  /\ pc[t] = "reading"
  /\ dbcheck("valid")
  /\ hdl' = [hdl EXCEPT ![t] = "valid"]
  /\ op' = [op EXCEPT ![t] = "end_read"]
  /\ ret' = [ret EXCEPT ![t] = NoRet]
  /\ IF next[lock[t]] = 0 /\ tail = lock[t]
       THEN /\ tail' = 0
            /\ QB_ER_Decrement(t)
       ELSE /\ pc' = [pc EXCEPT ![t] = "er_wait"]
            /\ UNCHANGED <<tail, next_writer, reader_count, fnode>>
  /\ UNCHANGED <<gl, freelist, qnodes,
                 lock, prev, nx, tl, nc, ncalls, inited, initret, arr>>

\* wg_end_read from the end of while(!lockp->next) to the fetch_and_add
QB_ER_Handoff(t) ==
  /\ pc[t] = "er_wait"
  /\ next[lock[t]] # 0
  /\ QB_ER_Decrement(t)
  /\ UNCHANGED <<gl, tail, freelist, qnodes,
                 op, hdl, ret, lock, prev, nx, tl, nc, ncalls,
                 inited, initret, arr>>

\* the readers of the batch: they call wg_start_read in the order of
\* their numbers and exchange tail while the writer holds the lock, and so
\* queue behind it
BatchReaders == ThreadsB \ {1, 2}

\* the node at the tail of the queue is that of a reader of the batch
BatchAtTail ==
  \E r \in BatchReaders :
    lock[r] = tail /\ pc[r] \in {"r_wait", "r_waitnext", "reading"}

\* thread 1 writes, and after its first write it queues behind the batch;
\* thread 2 reads whenever it likes; the others are the readers of the
\* batch
NextQB ==
  \/ init_lock_queue(MaxNodesB)
  \/ QU_start_write(1)
  \/ (ncalls[1] > 1 => BatchAtTail) /\ QP_W_Enqueue(1)
  \/ QU_start_read(2)
  \/ QP_R_Enqueue(2)
  \/ \E t \in BatchReaders :
       \/ (\A u \in BatchReaders : u < t => ncalls[u] > 0)
            /\ QU_start_read(t)
       \/ pc[1] = "writing" /\ QP_R_Enqueue(t)
  \/ \E t \in ThreadsB :
       \/ QU_Free(t)
       \/ W_Wait(t)
       \/ QP_EndWrite(t) \/ QP_EW_Handoff(t)
       \/ QP_R_Wait(t) \/ QP_R_Propagate(t)
       \/ QB_EndRead(t) \/ QB_ER_Handoff(t)
       \/ ER_Xchg(t) \/ ER_Unblock(t)

SpecQB == InitB /\ [][NextQB]_vars


\* the cells init_lock_queue links when locks.max_nodes is n
PoolCells(n) == {c \in Cells : c < chunk_wall(n)}

\* the cells met from c along next_cell, at most k of them, in order
RECURSIVE FreeChain(_, _)
FreeChain(c, k) ==
  IF c = 0 \/ k = 0 THEN <<>>
  ELSE <<c>> \o FreeChain(next_cell[c], k - 1)

\* no call is in progress: every thread is outside the library
NoCallInProgress == \A t \in Threads : pc[t] \in {"idle", "reading", "writing"}

\* the threads that hold a token
Holders == {t \in Threads : pc[t] \in {"reading", "writing"}}

\* thread t spins on the blocked bit of its cell, and the bit is set
Blocked(t) ==
  /\ pc[t] \in {"w_wait", "r_wait"}
  /\ TestMask(state[lock[t]], 1)

\* thread t spins, and what it waits for has not happened
Spinning(t) ==
  \/ Blocked(t)
  \/ /\ pc[t] \in {"ew_wait", "er_wait", "r_waitnext"}
     /\ next[lock[t]] = 0

\* thread t is in the waiting order and the blocked bit of its cell is clear
Admitted(t) == ~TestMask(state[lock[t]], 1)

\* C1: queued lock, reader/writer exclusion: no state has one thread
\* between the return of wg_start_write and its call of wg_end_write while
\* another is between the return of wg_start_read and its call of
\* wg_end_read.
C1_Q_ReadWriteExclusion ==
  \A a, b \in Threads : ~(pc[a] = "writing" /\ pc[b] = "reading")

\* C2: queued lock, writer exclusivity: at most one thread at a time is
\* between the return of wg_start_write and its call of wg_end_write.
C2_Q_WriterExclusivity ==
  Cardinality({t \in Threads : pc[t] = "writing"}) <= 1

\* C5: queued lock, no lost wakeup: a thread that spins on its blocked bit
\* is eventually released.  Stated as what has to hold for that: whenever a
\* thread is blocked, some thread is inside the library or holds the lock
\* and is not itself spinning for something that has not happened; otherwise
\* every holder has released, every call in progress spins, and nothing is
\* left to clear the bit.
C5_Q_NoLostWakeup ==
  (\E t \in Threads : Blocked(t))
    => \E u \in Threads : pc[u] # "idle" /\ ~Spinning(u)

\* C6: queued lock, FIFO: of two requests waiting to enter, the one whose
\* fetch_and_store on tail came later never has its blocked bit cleared
\* while the earlier one's bit is still set.
C6_Q_Fifo ==
  \A i, j \in 1..Len(arr) :
    i < j /\ Admitted(arr[j]) => Admitted(arr[i])

\* C7: queued lock, pool conservation: once every token is released and no
\* call is in progress, the cells reachable from freelist are exactly the
\* cells init_lock_queue linked, each once.
C7_Q_PoolConservation ==
  (inited /\ \A t \in Threads : pc[t] = "idle")
    => LET ch == FreeChain(freelist, MaxNodes + 1) IN
       /\ Len(ch) = MaxNodesP
       /\ {ch[i] : i \in 1..Len(ch)} = PoolCells(MaxNodesP)

\* C8: queued lock, pool exhaustion: wg_start_* returns 0 only on finding
\* freelist = 0, the call writing no word of the queue; and with no call in
\* progress and fewer than max_nodes tokens out, the freelist is not empty,
\* so that the next wg_start_* obtains a cell.
C8_Q_PoolExhaustion ==
  [][/\ \A t \in Threads :
          ((\/ ncalls'[t] # ncalls[t] /\ hdl'[t] = "valid"
                                      /\ pc'[t] = "idle"
            \/ pc[t] = "a_read" /\ pc'[t] = "idle")
           => (freelist = 0 /\ ret'[t] = <<0>> /\ UNCHANGED qshared))
     /\ ((inited /\ NoCallInProgress /\ Cardinality(Holders) < MaxNodesP)
           => freelist # 0)
    ]_vars

\* C9: a call whose handle fails dbcheck returns the failure value (0 for
\* the four lock operations, -1 for init_lock_queue) and changes no word of
\* the shared lock state.
C9_InvalidHandle ==
  [][/\ \A t \in Threads :
          ((ncalls'[t] # ncalls[t] /\ hdl'[t] = "invalid")
           => (ret'[t] = <<0>> /\ UNCHANGED shared))
     /\ ((initret' # initret /\ ~inited')
           => (initret' = <<-1>> /\ UNCHANGED shared))
    ]_vars

\* a reader that holds the lock has had a call refused for its handle
C9_Witness ==
  \E t \in Threads :
    /\ pc[t] = "reading" /\ hdl[t] = "invalid" /\ ret[t] = <<0>>
    /\ tail = lock[t] /\ reader_count = 1

\* thread t owns the cell lock[t]: alloc_lock has returned it to t and t
\* has not passed it to free_lock yet
Owns(t) ==
  /\ lock[t] # 0
  /\ pc[t] \notin {"f_decr", "f_claim", "f_read", "f_link", "f_cas"}

\* C14: tokens: a successful start call returns a nonzero token; with the
\* queued lock the token is the offset of the caller's node, alloc_lock
\* never hands out a cell that another thread owns, and so the tokens held
\* at the same time are pairwise distinct.
C14_TokensDistinct ==
  /\ \A t \in Holders : lock[t] # 0
  /\ \A a, b \in Threads :
       (a # b /\ Owns(a) /\ Owns(b)) => lock[a] # lock[b]

\* the cells reachable from freelist along next_cell
FreeCells ==
  LET ch == FreeChain(freelist, MaxNodes + 1)
  IN  {ch[i] : i \in 1..Len(ch)}

\* C20: pool, refcount protocol: every cell reachable from freelist has
\* bit 0 of its refcount set; as free_lock pushes a cell only after its
\* compare-and-swap of the refcount from 0 to 1 (the only way to f_read is
\* the successful F_Claim), no cell is on the list while a thread owns it,
\* and the list has neither a cycle nor a cell twice.
C20_PoolRefcount ==
  /\ \A c \in FreeCells : TestMask(refcount[c], 1)
  /\ \A t \in Threads : Owns(t) => lock[t] \notin FreeCells
  /\ Len(FreeChain(freelist, MaxNodes + 1)) = Cardinality(FreeCells)

\* the threads between the return of wg_start_read and the call of
\* wg_end_read
ReadHolders == {t \in Threads : pc[t] = "reading"}

\* C16: queued lock, reader_count never undercounts: in every reachable
\* state reader_count is at least the number of threads that hold a read
\* lock, and it is that number exactly when no lock operation is in
\* progress.
C16_Q_ReaderCount ==
  /\ reader_count >= Cardinality(ReadHolders)
  /\ NoCallInProgress => reader_count = Cardinality(ReadHolders)

\* every token has been released and no lock operation is in progress
Quiescent == \A t \in Threads : pc[t] = "idle"

\* C18: queued lock, quiescent reset: in every reachable state in which
\* all tokens have been released and no operation is in progress, tail,
\* next_writer and reader_count are 0.
C18_Q_QuiescentReset ==
  Quiescent => tail = 0 /\ next_writer = 0 /\ reader_count = 0

\* the node of another thread that t is going to read or write before its
\* call returns (0 if none): the predecessor from the exchange of tail up
\* to prevp->next = lock, the successor from the read of lockp->next up to
\* its unblocking, the writer taken from next_writer up to its unblocking
Ref(t) ==
  CASE pc[t] \in {"w_orprev", "w_link", "r_class", "r_casprev", "r_link",
                  "r_join", "r_joinlink"} -> prev[t]
    [] pc[t] \in {"ew_class", "ew_incr", "ew_unblock", "er_unblock"} -> nx[t]
    [] pc[t] \in {"r_incrnext", "r_wake"} -> next[lock[t]]
    [] OTHER -> 0

\* the threads that own cell c
Owners(c) == {u \in Threads : Owns(u) /\ lock[u] = c}

\* the threads inside wg_start_read or wg_start_write whose node is c
Starters(c) ==
  {u \in Owners(c) : op[u] \in {"start_read", "start_write"}}

\* C19: queued lock, node lifetime: no node is passed to free_lock while
\* another thread may still access its class, state or next; every node
\* unblocked by wg_end_write, by the hand-off of wg_end_read or by the
\* wake-up of a reader is still owned by a thread blocked in a start call;
\* no thread reads or writes a freed or a re-allocated node.
C19_Q_NodeLifetime ==
  [][ /\ \A t \in Threads :
           /\ Owns(t)' => (Owners(lock[t]))' = {t}
           /\ Ref(t)' # 0 =>
                 /\ Cardinality((Owners(Ref(t)))') = 1
                 /\ Ref(t)' \notin FreeCells'
      /\ \A c \in Cells :
           (TestMask(state[c], 1) /\ ~TestMask(state'[c], 1)) =>
             Starters(c) # {}
      /\ \A t \in Threads :
           (pc[t] \in {"ew_unblock", "er_unblock", "r_wake"}
              /\ pc'[t] # pc[t]) =>
             (Starters(Ref(t)) # {} /\ TestMask(state[Ref(t)], 1))
    ]_vars

\* C13: queued lock, reader batching: the readers queued behind a writer
\* are unblocked by its wg_end_write and by the wake-up the readers pass
\* on, none of them having called wg_end_read; they hold the lock together
\* with reader_count counting each of them; and a writer queued behind the
\* batch stays blocked until every reader of the batch has called
\* wg_end_read.
C13_Q_ReaderBatch ==
  [][ /\ \A r \in BatchReaders :
           (pc[r] # "reading" /\ pc'[r] = "reading") =>
             /\ pc[r] \in {"r_wait", "r_waitnext"}
             /\ reader_count' >=
                  Cardinality({x \in BatchReaders : pc'[x] = "reading"})
      /\ (pc[1] # "writing" /\ pc'[1] = "writing") =>
           \A r \in BatchReaders : pc[r] # "reading"
    ]_vars

\* ====================================================================
\* init_lock_queue, statement by statement
\* ====================================================================

\* What the segment may hold where init_lock_queue is about to write: a
\* fresh segment is zero filled, a segment that was in use holds the
\* reference counts and links the lock operations left there.
PriorRefcount == {0, RC_INCR}
PriorNextCell == {0, Storage, chunk_wall(MaxNodesB - 1)}
PriorFreelist == {0, Storage + SYN_VAR_PADDING}

\* the values of locks.max_nodes the loop is run with
MaxNodesRange == 1..MaxNodesB

InitI ==
  /\ gl = 0
  /\ tail = 0 /\ next_writer = 0 /\ reader_count = 0
  /\ freelist \in PriorFreelist
  /\ class = [c \in Cells |-> 0]
  /\ state = [c \in Cells |-> 0]
  /\ next = [c \in Cells |-> 0]
  /\ next_cell \in [Cells -> PriorNextCell]
  /\ refcount \in [Cells -> PriorRefcount]
  /\ pc = [t \in Threads |-> "idle"]
  /\ op = [t \in Threads |-> "none"]
  /\ hdl = [t \in Threads |-> "valid"]
  /\ ret = [t \in Threads |-> NoRet]
  /\ lock = [t \in Threads |-> 0]
  /\ prev = [t \in Threads |-> 0]
  /\ nx = [t \in Threads |-> 0]
  /\ tl = [t \in Threads |-> 0]
  /\ nc = [t \in Threads |-> 0]
  /\ fnode = [t \in Threads |-> 0]
  /\ ncalls = [t \in Threads |-> 0]
  /\ inited = FALSE
  /\ initret = NoRet
  /\ arr = <<>>

\* The for loop of init_lock_queue from the value i of its counter on:
\*   tmp = cell at i; tmp->refcount = 1; i += SYN_VAR_PADDING;
\*   tmp->next_cell = i;
\* m holds tmp and the two cell fields as the loop has left them so far;
\* tmp = 0 stands for the pointer not having been assigned.
RECURSIVE InitLoop(_, _, _)
InitLoop(i, wall, m) ==
  IF i < wall
    THEN InitLoop(i + SYN_VAR_PADDING, wall,
                  [tmp |-> i,
                   refcount |-> [m.refcount EXCEPT ![i] = 1],
                   next_cell |-> [m.next_cell EXCEPT
                                    ![i] = i + SYN_VAR_PADDING]])
    ELSE m

\* the loop run from locks.storage with locks.max_nodes = n
InitLoopFrom(n) ==
  InitLoop(Storage, chunk_wall(n),
           [tmp |-> 0, refcount |-> refcount, next_cell |-> next_cell])

\* init_lock_queue that leaves the last cell linked to chunk_wall: the
\* statement after the loop is missing
init_lock_queue_loop_NoLast(n) ==
  /\ ~inited
  /\ dbcheck("valid")
  /\ n >= 1
  /\ refcount' = InitLoopFrom(n).refcount
  /\ next_cell' = InitLoopFrom(n).next_cell
  /\ freelist' = Storage
  /\ inited' = TRUE
  /\ initret' = <<0>>
  /\ UNCHANGED <<gl, tail, next_writer, reader_count, class, state, next,
                 pc, op, hdl, ret, locals, ncalls, arr>>

\* init_lock_queue with a valid handle and locks.max_nodes = n >= 1: the
\* loop, then tmp->next_cell = 0 on the cell the loop visited last, then
\* freelist = storage and return 0. tail, next_writer and reader_count are
\* not written.
init_lock_queue_loop(n) ==
  /\ ~inited
  /\ dbcheck("valid")
  /\ n >= 1
  /\ refcount' = InitLoopFrom(n).refcount
  /\ next_cell' = [InitLoopFrom(n).next_cell EXCEPT
                     ![InitLoopFrom(n).tmp] = 0]
  /\ freelist' = Storage
  /\ inited' = TRUE
  /\ initret' = <<0>>
  /\ UNCHANGED <<gl, tail, next_writer, reader_count, class, state, next,
                 pc, op, hdl, ret, locals, ncalls, arr>>

\* init_lock_queue with locks.max_nodes = 0: the loop body is never run
\* and tmp->next_cell = 0 stores through a pointer that was never
\* assigned. The store lands on the next_cell of some cell of the arena
\* (c in Cells) or outside the words modelled here (c = 0).
init_lock_queue_zero ==
  /\ ~inited
  /\ dbcheck("valid")
  /\ InitLoopFrom(0).tmp = 0
  /\ \E c \in Cells \cup {0} :
       next_cell' = IF c = 0 THEN next_cell
                             ELSE [next_cell EXCEPT ![c] = 0]
  /\ freelist' = Storage
  /\ inited' = TRUE
  /\ initret' = <<0>>
  /\ UNCHANGED <<gl, tail, next_writer, reader_count, class, state, next,
                 refcount, pc, op, hdl, ret, locals, ncalls, arr>>

NextI ==
  \/ \E n \in MaxNodesRange : init_lock_queue_loop(n)
  \/ init_lock_queue_zero
  \/ Invalid_init_lock_queue

SpecI == InitI /\ [][NextI]_vars

\* the arena cells of a pool of n cells, in address order
ArenaSeq(n) == [k \in 1..n |-> Storage + (k - 1) * SYN_VAR_PADDING]

\* the state init_lock_queue is to leave for locks.max_nodes = n
InitPost(n) ==
  /\ freelist = Storage
  /\ FreeChain(freelist, MaxNodesB + 1) = ArenaSeq(n)
  /\ \A k \in 1..n :
       next_cell[ArenaSeq(n)[k]] =
         IF k < n THEN ArenaSeq(n)[k] + SYN_VAR_PADDING ELSE 0
  /\ \A c \in PoolCells(n) : refcount[c] = 1
  /\ initret = <<0>>

\* the loop and the closed form the lock specifications use
\* (init_lock_queue above) are the same step
InitLoopIsInitLockQueue ==
  [][\A n \in MaxNodesRange :
       init_lock_queue_loop(n) <=> init_lock_queue(n)]_vars

\* C21: init_lock_queue with a valid handle and max_nodes >= 1 leaves
\* freelist equal to storage; following next_cell from freelist visits
\* exactly the max_nodes arena cells, once each, in address order, each
\* next_cell being the offset of the cell SYN_VAR_PADDING bytes further;
\* the last cell's next_cell is 0; every cell's refcount is 1; and the
\* call returns 0. Words of the arena past the max_nodes cells are left
\* as they were.
C21_InitLockQueue ==
  [][\A n \in MaxNodesRange :
       init_lock_queue_loop(n) =>
         /\ InitPost(n)'
         /\ \A c \in Cells \ PoolCells(n) :
              refcount'[c] = refcount[c] /\ next_cell'[c] = next_cell[c]
    ]_vars

\* init_lock_queue has returned 0 on a segment that was in use before: it
\* linked all the cells but the last one of the arena, which still holds
\* the reference count and the link it held before the call
C21_Witness ==
  /\ inited /\ initret = <<0>>
  /\ FreeChain(freelist, MaxNodesB + 1) = ArenaSeq(MaxNodesB - 1)
  /\ refcount[Storage] = 1
  /\ refcount[chunk_wall(MaxNodesB - 1)] = RC_INCR
  /\ next_cell[chunk_wall(MaxNodesB - 1)] = Storage
====
